---- MODULE Spec2Model ----
(***************************************************************************)
(* Model of the HKO_HUB kernel (CHOPSHOP/legacy_repos/HKO_HUB/HKO_HUB.js): *)
(* the Core's init/start/stop sweeps over the five shipped modules, the    *)
(* shared application store, and the atoms and molecules they are built    *)
(* from.                                                                   *)
(*                                                                         *)
(* The specifications share the variables:                                 *)
(*   Spec        the Core: sweeps as async functions whose continuations   *)
(*               run from a FIFO microtask queue;                          *)
(*   SpecStore   one Mol_Store with a schema and subscribers;              *)
(*   SpecBus     one Atom_Event with on, once, emit and clear;             *)
(*   SpecModule  one Mol_Module with hooks, listeners and phase calls;     *)
(*   SpecPipe    one Mol_Pipeline with runs resumed in any order;          *)
(*   SpecCell    one Atom_State with read, write and reset;                *)
(*   SpecLogger  one Module_Logger with its buffer and onLog subscribers.  *)
(***************************************************************************)
EXTENDS Integers, Sequences, FiniteSets, TLC

\* ---------------------------------------------------------------- bounds
MaxSweeps == 2

MaxSubs == 3
\* subscriptions made on the event bus of one module
MaxListeners == 1
\* hooks registered with one module, over its three phases
MaxHooks == 2
\* phase calls made on one module
MaxCalls == 2
\* stages of one pipeline
MaxStages == 2
\* run calls made on one pipeline
MaxRuns == 2
\* subscriptions made on the event bus of one pipeline
MaxWatchers == 1
\* the values a State cell holds are 0..MaxCell
MaxCell == 7

\* log calls made on one logger, and subscriptions made with onLog
MaxLogged == 1002
MaxLogSubs == 2

\* ------------------------------------------------------- program constants
LogCap == 1000

\* ================================================================= CORE ==
VARIABLES status, appState, logs, sweeps, mq

coreVars == <<status, appState, logs, sweeps, mq>>

\* new Map([...]) of HKO_HUB_Core: the registration order
Modules == <<"logger", "config", "state", "window", "ipc">>

NumModules == Len(Modules)

Names == {Modules[i] : i \in 1..NumModules}

Phases == {"init", "start", "stop"}

Reverse(s) == [i \in 1..Len(s) |-> s[Len(s) + 1 - i]]

SweepOrder_Reversed(kind) == Reverse(Modules)

SweepOrder_Forward(kind) == Modules

\* the iteration order of a sweep: `modules` for init and start,
\* `[...modules].reverse()` for stop
SweepOrder(kind) == IF kind = "stop" THEN Reverse(Modules) ELSE Modules

\* the status a phase method writes into the module's status cell
PhaseStatus(kind) ==
  CASE kind = "init"  -> "init"
    [] kind = "start" -> "run"
    [] kind = "stop"  -> "stop"

\* exceptions as [type, ref]: ref is the set of modules the exception refers
\* to.  What a hook or a subscriber throws is a plain Error that refers to no
\* module, and the code never wraps or replaces it.
NoErr == [type |-> "none", ref |-> {}]

Thrown == [type |-> "Error", ref |-> {}]

\* how one call of a module's phase method goes: every hook and every
\* subscriber of the module's bus returns ("ok"), a hook throws ("hook"),
\* or a subscriber of the module's bus throws during evt.emit ("sub")
PhaseOutcomes == {"ok", "hook", "sub"}

\* Mol_Module.init/start/stop: lc.run(phase); state.write(...); evt.emit(phase)
\* the status cell after the call
ModulePhase(st, kind, outcome) ==
  IF outcome = "hook" THEN st ELSE PhaseStatus(kind)

\* the promise the async phase method returns: fulfilled, or rejected with e
PhasePromise(outcome) == IF outcome = "ok" THEN NoErr ELSE Thrown

\* Module_Logger.log: logs.push(entry); if (logs.length > 1000) logs.shift()
LogPush(l, entry) ==
  LET pushed == Append(l, entry)
  IN  IF Len(pushed) > LogCap THEN Tail(pushed) ELSE pushed

\* Module_State.update(path, val): the value is written in place, then
\* store.set({...state}) emits to the store's subscribers
UpdateModule_SetsApp(st, n) == [st EXCEPT !.modules[n] = "running", !.app = "running"]

UpdateModule(st, n) == [st EXCEPT !.modules[n] = "running"]

UpdateApp(st) == [st EXCEPT !.app = "running"]

NewSweep(kind, n, promise) ==
  [kind |-> kind, pos |-> 1, pc |-> "awaiting", pend |-> promise,
   trace |-> <<n>>, err |-> NoErr, cause |-> "none", wrote |-> {},
   failed |-> {}]

InitCore ==
  /\ status = [n \in Names |-> "idle"]
  /\ appState = [app |-> "idle", modules |-> [n \in Names |-> "unset"]]
  /\ logs = <<>>
  /\ sweeps = <<>>
  /\ mq = <<>>

\* A call of Core.init / Core.start / Core.stop: the async function runs
\* synchronously up to its first await, i.e. it calls the first module's phase
\* method and suspends on the returned promise.
Call(kind) ==
  /\ Len(sweeps) < MaxSweeps
  /\ \E outcome \in PhaseOutcomes :
       LET n == SweepOrder(kind)[1]
       IN  /\ status' = [status EXCEPT ![n] = ModulePhase(@, kind, outcome)]
           /\ sweeps' = Append(sweeps, NewSweep(kind, n, PhasePromise(outcome)))
           /\ mq' = Append(mq, Len(sweeps) + 1)
  /\ UNCHANGED <<appState, logs>>

CallInit == Call("init")

CallStart == Call("start")

CallStop == Call("stop")

\* the async function ends with an exception: its promise rejects with e
Reject(sw, e, cause) == [sw EXCEPT !.pc = "rejected", !.err = e, !.cause = cause]

AwaitThrows_Swallowed(sw) == FALSE

\* `await m.<phase>()` stands in the loop body with no try/catch around it:
\* a rejected promise throws out of the loop, whatever the sweep's kind
AwaitThrows(sw) == sw.pend # NoErr

\* The continuation of a sweep after `await m.<phase>()`, up to the next await
\* or to the end of the async function: logger.info, for start the store
\* updates, then the next module's phase method.  A subscriber of the logger's
\* onLog bus or of the shared store may throw, which ends the sweep.
\* Bookkeeping for the properties: trace (the phase methods called), cause,
\* wrote (the modules this sweep recorded as running) and failed (the modules
\* whose phase promise this sweep saw rejected).
Resume ==
  /\ mq # <<>>
  /\ LET s == Head(mq)
         sw == sweeps[s]
         ord == SweepOrder(sw.kind)
         n == ord[sw.pos]
         isStart == sw.kind = "start"
         st1 == IF isStart THEN UpdateModule(appState, n) ELSE appState
         sw1 == IF isStart THEN [sw EXCEPT !.wrote = @ \cup {n}] ELSE sw
     IN
     IF AwaitThrows(sw)
     THEN \* the awaited promise is rejected: the exception leaves the loop
          /\ sweeps' = [sweeps EXCEPT ![s] =
                          Reject([sw EXCEPT !.failed = @ \cup {n}], sw.pend, "phase")]
          /\ mq' = Tail(mq)
          /\ UNCHANGED <<status, appState, logs>>
     ELSE /\ logs' = LogPush(logs, <<sw.kind, n>>)
          /\ \/ \* a subscriber of onLog throws in logger.info: the rest of
                \* the iteration is skipped
                /\ sweeps' = [sweeps EXCEPT ![s] = Reject(sw, Thrown, "log")]
                /\ mq' = Tail(mq)
                /\ UNCHANGED <<status, appState>>
             \/ \* state.update(`modules.${n}`, 'running'): the record is
                \* written in place, then a subscriber of the store throws
                /\ isStart
                /\ appState' = st1
                /\ sweeps' = [sweeps EXCEPT ![s] = Reject(sw1, Thrown, "store")]
                /\ mq' = Tail(mq)
                /\ UNCHANGED status
             \/ \* next iteration: call the next module's phase method
                /\ sw.pos < NumModules
                /\ \E po \in PhaseOutcomes :
                     LET m == ord[sw.pos + 1]
                     IN  /\ status' = [status EXCEPT ![m] = ModulePhase(@, sw.kind, po)]
                         /\ sweeps' = [sweeps EXCEPT ![s] =
                               [sw1 EXCEPT !.pos = sw.pos + 1,
                                           !.pend = PhasePromise(po),
                                           !.trace = Append(sw.trace, m)]]
                /\ appState' = st1
                /\ mq' = Append(Tail(mq), s)
             \/ \* the loop is over; start ends with
                \* state.update('app.status', 'running'), in which a
                \* subscriber of the store may throw after the write
                /\ sw.pos = NumModules
                /\ appState' = IF isStart THEN UpdateApp(st1) ELSE st1
                /\ \/ sweeps' = [sweeps EXCEPT ![s] = [sw1 EXCEPT !.pc = "resolved"]]
                   \/ /\ isStart
                      /\ sweeps' = [sweeps EXCEPT ![s] = Reject(sw1, Thrown, "store")]
                /\ mq' = Tail(mq)
                /\ UNCHANGED status

\* ================================================================ STORE ==
\* One Mol_Store(init, schema): schema is the rule map as declared (key and
\* predicate, in declaration order), sinit the construction-time value, sval
\* the State cell, ls the subscriber array of the `changed` bus (handler ids),
\* nextId the number of subscriptions made so far plus one.  call records the
\* operation just made when it was a set: its argument, the value and the
\* subscriber array before it, its outcome and the handler invocations.
VARIABLES schema, sinit, sval, ls, nextId, call

storeVars == <<schema, sinit, sval, ls, nextId, call>>

\* field names of the payloads; "0" is an integer-like property key
Fields == {"name", "0"}

\* field values: undefined (also a missing field), the empty string, a
\* non-empty string
Values == {"undef", "", "s"}

Objects == [Fields -> Values]

\* the payload null: not an object, reading a property of it throws
NULL == [k \in Fields |-> "null"]

Payloads == Objects \cup {NULL}

EmptyObject == [k \in Fields |-> "undef"]

\* Atom_Guard.required and Atom_Guard.type('string')
Predicates == {"required", "string"}

Holds(r, x) ==
  CASE r = "required" -> x # "undef" /\ x # ""
    [] r = "string"   -> x \in {"", "s"}

\* the rule maps: object literals with distinct keys, as sequences of entries
\* in the order in which the keys are declared
Range(q) == {q[i] : i \in 1..Len(q)}

Schemas ==
  {q \in UNION {[1..n -> [k : Fields, r : Predicates]] : n \in 0..Cardinality(Fields)} :
     \A i, j \in 1..Len(q) : i # j => q[i].k # q[j].k}

\* integer-like keys (canonical array indices) and their numeric value
IsIndexKey(k) == k \in {"0"}

IndexValue(k) == CASE k = "0" -> 0 [] OTHER -> -1

RECURSIVE SortByIndex(_)
SortByIndex(q) ==
  IF q = <<>> THEN <<>>
  ELSE LET m == CHOOSE i \in 1..Len(q) :
                  \A j \in 1..Len(q) : IndexValue(q[i].k) <= IndexValue(q[j].k)
       IN  <<q[m]>> \o SortByIndex([i \in 1..(Len(q) - 1) |-> IF i < m THEN q[i] ELSE q[i + 1]])

IsIndexEntry(e) == IsIndexKey(e.k)

IsStringEntry(e) == ~IsIndexKey(e.k)

\* Object.entries(rules): own keys in the engine's property order, i.e. the
\* integer-like keys in ascending numeric order first, then the other keys in
\* the order of their creation
Entries(rules) ==
  SortByIndex(SelectSeq(rules, IsIndexEntry)) \o SelectSeq(rules, IsStringEntry)

\* Atom_Guard.validate(rules)(data):
\*   for (const [k, r] of Object.entries(rules)) if (!r(data[k])) return {ok:false, field:k}
\*   return {ok:true, data}
\* data[k] on null throws a TypeError
RECURSIVE ValidateFrom(_, _, _)
ValidateFrom(es, i, data) ==
  IF i > Len(es) THEN [ok |-> TRUE, field |-> "none", threw |-> FALSE]
  ELSE IF data = NULL THEN [ok |-> FALSE, field |-> "none", threw |-> TRUE]
  ELSE IF ~Holds(es[i].r, data[es[i].k])
       THEN [ok |-> FALSE, field |-> es[i].k, threw |-> FALSE]
       ELSE ValidateFrom(es, i + 1, data)

Validate(rules, data) == ValidateFrom(Entries(rules), 1, data)

\* -------------------------------------------------------------- Atom_Event
\* Array.prototype.indexOf: the first position of h, 0 for "not found" (-1)
IndexOf(q, h) ==
  IF h \in Range(q) THEN CHOOSE i \in 1..Len(q) : q[i] = h /\ \A j \in 1..(i - 1) : q[j] # h
  ELSE 0

RemoveAt(q, i) == [j \in 1..(Len(q) - 1) |-> IF j < i THEN q[j] ELSE q[j + 1]]

\* the unsubscribe function of on(f): ls.splice(ls.indexOf(f), 1).  When f is
\* no longer in the array indexOf gives -1 and splice(-1, 1) removes the last
\* element.
Unsubscribe(q, h) ==
  IF q = <<>> THEN q
  ELSE IF IndexOf(q, h) = 0 THEN RemoveAt(q, Len(q)) ELSE RemoveAt(q, IndexOf(q, h))

\* what a handler subscribed with on does when it is invoked: it returns, it
\* throws, or it calls its own unsubscribe function and returns
Behaviours == {"return", "throw", "off"}

\* once(f) pushes the wrapper (d) => (f(d), off()) where off is () => ls.pop():
\* either f returns and the wrapper calls off ("once"), or f throws
OnceBehaviours == {"once", "throw"}

\* ls.pop(): removes the last element of the array, whichever it is
Pop(q) == IF q = <<>> THEN q ELSE SubSeq(q, 1, Len(q) - 1)

\* a handler may also call on(g) while it is invoked: it subscribes g and
\* returns ("sub"), or it calls its own unsubscribe function first ("offsub").
\* The function g is the one whose behaviour is "fresh": it is not subscribed
\* when the emission begins, and it returns in case it is invoked.
SubscribingBehaviours == {"sub", "offsub"}

New(beh) == CHOOSE g \in DOMAIN beh : beh[g] = "fresh"

\* emit: ls.forEach(f => f(d)) over the live array.  forEach reads the length
\* once (len) and then visits the indices 1..len that are still present, so
\* after a splice the handlers behind the removed one move down one index and
\* the last indices are no longer there.
RECURSIVE EmitFrom_Catching(_, _, _, _, _, _)
EmitFrom_Catching(q, k, len, d, beh, acc) ==
  IF k > len THEN [ls |-> q, delivered |-> acc, threw |-> FALSE]
  ELSE IF k > Len(q) THEN EmitFrom_Catching(q, k + 1, len, d, beh, acc)
  ELSE LET h == q[k]
           acc1 == Append(acc, [h |-> h, d |-> d])
       IN  CASE beh[h] = "off" -> EmitFrom_Catching(Unsubscribe(q, h), k + 1, len, d, beh, acc1)
             [] beh[h] = "once" -> EmitFrom_Catching(Pop(q), k + 1, len, d, beh, acc1)
             [] beh[h] = "sub" -> EmitFrom_Catching(Append(q, New(beh)), k + 1, len, d, beh, acc1)
             [] beh[h] = "offsub" ->
                  EmitFrom_Catching(Append(Unsubscribe(q, h), New(beh)), k + 1, len, d, beh, acc1)
             [] OTHER -> EmitFrom_Catching(q, k + 1, len, d, beh, acc1)

RECURSIVE EmitFrom(_, _, _, _, _, _)
EmitFrom(q, k, len, d, beh, acc) ==
  IF k > len THEN [ls |-> q, delivered |-> acc, threw |-> FALSE]
  ELSE IF k > Len(q) THEN EmitFrom(q, k + 1, len, d, beh, acc)
  ELSE LET h == q[k]
           acc1 == Append(acc, [h |-> h, d |-> d])
       IN  CASE beh[h] = "throw" -> [ls |-> q, delivered |-> acc1, threw |-> TRUE]
             [] beh[h] = "off" -> EmitFrom(Unsubscribe(q, h), k + 1, len, d, beh, acc1)
             [] beh[h] = "once" -> EmitFrom(Pop(q), k + 1, len, d, beh, acc1)
             [] beh[h] = "sub" -> EmitFrom(Append(q, New(beh)), k + 1, len, d, beh, acc1)
             [] beh[h] = "offsub" ->
                  EmitFrom(Append(Unsubscribe(q, h), New(beh)), k + 1, len, d, beh, acc1)
             [] OTHER -> EmitFrom(q, k + 1, len, d, beh, acc1)

Emit(q, d, beh) == EmitFrom(q, 1, Len(q), d, beh, <<>>)

\* --------------------------------------------------------------- Mol_Store
NoStoreErr == [type |-> "none", field |-> "none"]

NoCall ==
  [op |-> "none", v |-> EmptyObject, prev |-> EmptyObject, before |-> <<>>,
   out |-> "none", err |-> NoStoreErr, ret |-> EmptyObject, delivered |-> <<>>]

\* const validator = Object.keys(schema).length ? Atom_Guard.validate(schema) : null
HasValidator(rules) == Len(rules) # 0

InitStore ==
  /\ schema \in Schemas
  /\ sinit \in {EmptyObject, [k \in Fields |-> "s"]}
  /\ sval = sinit
  /\ ls = <<>>
  /\ nextId = 1
  /\ call = NoCall

\* set(v):
\*   if (validator) { const r = validator(v); if (!r.ok) throw new Error(`Invalid: ${r.field}`); }
\*   state.write(v); changed.emit(v); return v;
\* beh is what each subscribed handler does when this emission invokes it.
StoreSet ==
  \E v \in Payloads :
    LET r == Validate(schema, v)
        c == [op |-> "set", v |-> v, prev |-> sval, before |-> ls,
              out |-> "throw", err |-> NoStoreErr, ret |-> EmptyObject,
              delivered |-> <<>>]
    IN
    IF HasValidator(schema) /\ r.threw
    THEN /\ call' = [c EXCEPT !.err = [type |-> "TypeError", field |-> "none"]]
         /\ UNCHANGED <<schema, sinit, sval, ls, nextId>>
    ELSE IF HasValidator(schema) /\ ~r.ok
    THEN /\ call' = [c EXCEPT !.err = [type |-> "Invalid", field |-> r.field]]
         /\ UNCHANGED <<schema, sinit, sval, ls, nextId>>
    ELSE \E beh \in [Range(ls) -> Behaviours] :
           LET e == Emit(ls, v, beh)
           IN  /\ sval' = v
               /\ ls' = e.ls
               /\ call' = IF e.threw
                          THEN [c EXCEPT !.err = [type |-> "Error", field |-> "none"],
                                         !.delivered = e.delivered]
                          ELSE [c EXCEPT !.out = "return", !.ret = v,
                                         !.delivered = e.delivered]
               /\ UNCHANGED <<schema, sinit, nextId>>

\* set(v) with the subscriber at index j calling set(w) when the emission of
\* v invokes it: the inner set writes w and emits w to the whole array, then
\* the emission of v goes on behind index j.  Every handler returns, w passes
\* the validator, and the subscriber does not call set again for w.
ReentrantValues == {EmptyObject, [k \in Fields |-> "s"]}

StoreSetReentrant ==
  \E v \in ReentrantValues, w \in ReentrantValues, j \in 1..Len(ls) :
    LET returns == [h \in Range(ls) |-> "return"]
        upto == EmitFrom(ls, 1, j, v, returns, <<>>)
        inner == EmitFrom(upto.ls, 1, Len(upto.ls), w, returns, upto.delivered)
        rest == EmitFrom(inner.ls, j + 1, Len(ls), v, returns, inner.delivered)
        ok(x) == ~HasValidator(schema)
                   \/ (~Validate(schema, x).threw /\ Validate(schema, x).ok)
    IN  /\ v # w
        /\ ok(v)
        /\ ok(w)
        /\ sval' = w
        /\ ls' = rest.ls
        /\ call' = [op |-> "reenter", v |-> v, prev |-> sval, before |-> ls,
                    out |-> "return", err |-> NoStoreErr, ret |-> v,
                    delivered |-> rest.delivered]
        /\ UNCHANGED <<schema, sinit, nextId>>

\* on(f): ls.push(f); every subscription is a handler of its own
StoreOn ==
  /\ nextId <= MaxSubs
  /\ ls' = Append(ls, nextId)
  /\ nextId' = nextId + 1
  /\ call' = NoCall
  /\ UNCHANGED <<schema, sinit, sval>>

\* a call of the unsubscribe function that an earlier on(f) returned
StoreOff ==
  \E h \in 1..(nextId - 1) :
    /\ ls' = Unsubscribe(ls, h)
    /\ call' = NoCall
    /\ UNCHANGED <<schema, sinit, sval, nextId>>

StoreReset_Emits ==
  \E beh \in [Range(ls) -> Behaviours] :
    LET e == Emit(ls, sinit, beh)
    IN  /\ sval' = sinit
        /\ ls' = e.ls
        /\ call' = [NoCall EXCEPT !.op = "reset", !.prev = sval, !.before = ls,
                                  !.out = "return", !.ret = sinit,
                                  !.delivered = e.delivered]
        /\ UNCHANGED <<schema, sinit, nextId>>

\* reset: state.reset, v = initial, which returns v; nothing is emitted
StoreReset ==
  /\ sval' = sinit
  /\ call' = [NoCall EXCEPT !.op = "reset", !.prev = sval, !.before = ls,
                            !.out = "return", !.ret = sinit]
  /\ UNCHANGED <<schema, sinit, ls, nextId>>

StoreIdle ==
  /\ schema = <<>>
  /\ sinit = EmptyObject
  /\ sval = EmptyObject
  /\ ls = <<>>
  /\ nextId = 1
  /\ call = NoCall

\* ================================================================== BUS ==
\* One Atom_Event: subs is the array ls (handler ids in subscription order),
\* bonce the handlers that were subscribed with once, bnext the number of
\* subscriptions made so far plus one.  em records the operation just made
\* when it was an emit: the payload, the array before it, what each handler
\* did, the invocations made and whether the call threw.
VARIABLES subs, bonce, bnext, em

busVars == <<subs, bonce, bnext, em>>

BusPayloads == {"a", "b"}

\* the last operation on the bus: op, the handler h whose unsubscribe function
\* was called, the array before it, and for an emission the payload, the
\* handlers' behaviours and the invocations made; emitted tells whether emit
\* has been called on this bus yet
NoEmit ==
  [op |-> "none", h |-> 0, d |-> "a", before |-> <<>>, beh |-> <<>>,
   delivered |-> <<>>, threw |-> FALSE, emitted |-> FALSE]

Quiet == [NoEmit EXCEPT !.emitted = em.emitted]

BusIdle ==
  /\ subs = <<>>
  /\ bonce = {}
  /\ bnext = 1
  /\ em = NoEmit

\* on(f): ls.push(f)
BusOn ==
  /\ bnext <= MaxSubs
  /\ subs' = Append(subs, bnext)
  /\ bnext' = bnext + 1
  /\ em' = Quiet
  /\ UNCHANGED bonce

\* once(f): ls.push(wrapper)
BusOnce ==
  /\ bnext <= MaxSubs
  /\ subs' = Append(subs, bnext)
  /\ bonce' = bonce \cup {bnext}
  /\ bnext' = bnext + 1
  /\ em' = Quiet

\* a call of the function that on(f) returned: ls.splice(ls.indexOf(f), 1)
BusOff ==
  \E h \in (1..(bnext - 1)) \ bonce :
    /\ subs' = Unsubscribe(subs, h)
    /\ em' = [Quiet EXCEPT !.op = "off", !.h = h, !.before = subs]
    /\ UNCHANGED <<bonce, bnext>>

\* a call of the function that once(f) returned: ls.pop()
BusOffOnce ==
  \E h \in bonce :
    /\ subs' = Pop(subs)
    /\ em' = [Quiet EXCEPT !.op = "offonce", !.h = h, !.before = subs]
    /\ UNCHANGED <<bonce, bnext>>

\* the handlers that subscribe another handler in a behaviour assignment
Subscribing(beh) == {h \in DOMAIN beh : beh[h] \in SubscribingBehaviours}

\* the behaviours the subscribed handlers can show in one emission, none of
\* them subscribing a handler
PlainBehaviours ==
  {beh \in [Range(subs) -> Behaviours \cup OnceBehaviours] :
     \A h \in Range(subs) :
        IF h \in bonce THEN beh[h] \in OnceBehaviours ELSE beh[h] \in Behaviours}

\* the same with one handler p subscribing the handler bnext during the pass
HandlerBehaviours ==
  PlainBehaviours \cup
  {[beh EXCEPT ![p] = b] @@ (bnext :> "fresh") :
     beh \in PlainBehaviours,
     p \in {h \in Range(subs) \ bonce : bnext <= MaxSubs},
     b \in SubscribingBehaviours}

\* emit(d)
BusEmit ==
  \E d \in BusPayloads, beh \in HandlerBehaviours :
    LET e == Emit(subs, d, beh)
        made == \E j \in 1..Len(e.delivered) : e.delivered[j].h \in Subscribing(beh)
    IN  /\ subs' = e.ls
        /\ em' = [op |-> "emit", h |-> 0, d |-> d, before |-> subs, beh |-> beh,
                  delivered |-> e.delivered, threw |-> e.threw, emitted |-> TRUE]
        /\ bnext' = IF made THEN bnext + 1 ELSE bnext
        /\ UNCHANGED bonce

\* clear(): ls.length = 0
BusClear ==
  /\ subs' = <<>>
  /\ em' = Quiet
  /\ UNCHANGED <<bonce, bnext>>

\* -------------------------------------------------------------- Mol_Module
\* mstate : the status cell (Atom_State) of the module
\* hooks  : the number of hooks registered for each phase (Atom_Lifecycle.h)
\* msubs  : the subscribers of the module's event bus, oldest first
\* mnext  : the identity of the next subscriber
\* hist   : one record per phase call made so far, oldest first
VARIABLES mstate, hooks, msubs, mnext, hist

modVars == <<mstate, hooks, msubs, mnext, hist>>

ErrNull == "null"

\* Atom_State({ status: 'idle', err: null })
IdleState == [status |-> "idle", err |-> ErrNull]

\* a hook returns, throws, or returns a promise for work that is still to be
\* done (an async hook)
HookBehaviours(n) == [1..n -> {"return", "throw", "async"}]

\* h[phase].forEach(f => f()): the hooks run in registration order up to the
\* first one that throws
RECURSIVE RunFrom_Continues(_, _, _)
RunFrom_Continues(n, k, hb) ==
  IF k > n THEN [ran |-> n, threw |-> \E j \in 1..n : hb[j] = "throw"]
  ELSE RunFrom_Continues(n, k + 1, hb)

RECURSIVE RunFrom(_, _, _)
RunFrom(n, k, hb) ==
  IF k > n THEN [ran |-> n, threw |-> FALSE]
  ELSE IF hb[k] = "throw" THEN [ran |-> k, threw |-> TRUE]
  ELSE RunFrom(n, k + 1, hb)

LifecycleRun_OnlyFirst(n, hb) == RunFrom(IF n > 1 THEN 1 ELSE n, 1, hb)

LifecycleRun(n, hb) == RunFrom(n, 1, hb)

\* the promises the hooks run returned: forEach drops them, so their work is
\* open when lc.run returns
Dropped(ran, hb) == Cardinality({k \in 1..ran : hb[k] = "async"})

\* the body of init / start / stop: lc.run(phase); state.write(...);
\* evt.emit(phase).  events lists the emissions made, each with the status
\* the cell held when it was made.
ModuleRun_EmitsFirst(st, q, phase, hb, sb) ==
  LET r == LifecycleRun(Len(hb), hb)
      w == [status |-> PhaseStatus(phase), err |-> ErrNull]
      e == Emit(q, phase, sb)
  IN  IF r.threw
      THEN [state |-> st, ls |-> q, ran |-> r.ran, events |-> <<>>, res |-> "rejected"]
      ELSE [state |-> w, ls |-> e.ls, ran |-> r.ran,
            events |-> <<[e |-> phase, seen |-> st.status]>>,
            res |-> IF e.threw THEN "rejected" ELSE "fulfilled"]

ModuleRun_StoresError(st, q, phase, hb, sb) ==
  LET r == LifecycleRun(Len(hb), hb)
      w == [status |-> PhaseStatus(phase), err |-> ErrNull]
      e == Emit(q, phase, sb)
  IN  IF r.threw
      THEN [state |-> [status |-> st.status, err |-> "Error"], ls |-> q, ran |-> r.ran,
            events |-> <<>>, res |-> "rejected"]
      ELSE [state |-> w, ls |-> e.ls, ran |-> r.ran,
            events |-> <<[e |-> phase, seen |-> w.status]>>,
            res |-> IF e.threw THEN "rejected" ELSE "fulfilled"]

ModuleRun(st, q, phase, hb, sb) ==
  LET r == LifecycleRun(Len(hb), hb)
      w == [status |-> PhaseStatus(phase), err |-> ErrNull]
      e == Emit(q, phase, sb)
  IN  IF r.threw
      THEN [state |-> st, ls |-> q, ran |-> r.ran, events |-> <<>>, res |-> "rejected"]
      ELSE [state |-> w, ls |-> e.ls, ran |-> r.ran,
            events |-> <<[e |-> phase, seen |-> w.status]>>,
            res |-> IF e.threw THEN "rejected" ELSE "fulfilled"]

\* the first hook that throws, 0 when none does
Thrower(hb) ==
  IF \E j \in 1..Len(hb) : hb[j] = "throw"
  THEN CHOOSE j \in 1..Len(hb) : hb[j] = "throw" /\ \A i \in 1..(j - 1) : hb[i] # "throw"
  ELSE 0

ModIdle ==
  /\ mstate = IdleState
  /\ hooks = [p \in Phases |-> 0]
  /\ msubs = <<>>
  /\ mnext = 1
  /\ hist = <<>>

\* m.onInit(f) / m.onStart(f) / m.onStop(f)
ModOnHook ==
  /\ hooks["init"] + hooks["start"] + hooks["stop"] < MaxHooks
  /\ \E p \in Phases : hooks' = [hooks EXCEPT ![p] = @ + 1]
  /\ UNCHANGED <<mstate, msubs, mnext, hist>>

\* m.on(f)
ModOn ==
  /\ mnext <= MaxListeners
  /\ msubs' = Append(msubs, mnext)
  /\ mnext' = mnext + 1
  /\ UNCHANGED <<mstate, hooks, hist>>

\* the function m.on(f) returned
ModOff ==
  /\ \E h \in 1..(mnext - 1) : msubs' = Unsubscribe(msubs, h)
  /\ UNCHANGED <<mstate, hooks, mnext, hist>>

\* the outcomes of one call of init / start / stop, one per behaviour of the
\* hooks and reaction of the listeners: the new cell, the new listener array
\* and the record of the call
PhaseCalls(phase) ==
  UNION
  { { LET r == ModuleRun(mstate, msubs, phase, hb, sb)
      IN  [state |-> r.state, ls |-> r.ls,
           entry |-> [op |-> phase, prev |-> mstate, n |-> Len(hb),
                      thrower |-> Thrower(hb), ran |-> r.ran,
                      events |-> r.events, res |-> r.res, state |-> r.state,
                      open |-> Dropped(r.ran, hb), lost |-> FALSE]] :
      sb \in IF Thrower(hb) # 0 THEN {[h \in Range(msubs) |-> "return"]}
             ELSE [Range(msubs) -> Behaviours] } :
    hb \in HookBehaviours(hooks[phase]) }

\* m.init() / m.start() / m.stop(): no await in the body, so the whole body
\* runs within the call
ModCall(phase) ==
  /\ Len(hist) < MaxCalls
  /\ \E c \in PhaseCalls(phase) :
        /\ mstate' = c.state
        /\ msubs' = c.ls
        /\ hist' = Append(hist, c.entry)
  /\ UNCHANGED <<hooks, mnext>>

ModInit == ModCall("init")

ModStart == ModCall("start")

ModStop == ModCall("stop")

\* the work of an async hook ends: its promise fulfils or rejects.  Nothing
\* holds the promise, so a rejection is lost.
ModSettle ==
  /\ \E i \in 1..Len(hist) :
        /\ hist[i].open > 0
        /\ \E rejected \in BOOLEAN :
              hist' = [hist EXCEPT ![i].open = @ - 1, ![i].lost = @ \/ rejected]
  /\ UNCHANGED <<mstate, hooks, msubs, mnext>>

\* ------------------------------------------------------------ Mol_Pipeline
\* stages : the stage functions the pipeline was built with, in declaration order
\* psubs  : the subscribers of the pipeline's event bus, oldest first
\* pnext  : the identity of the next subscriber
\* runs   : one record per run call made so far, oldest first
VARIABLES stages, psubs, pnext, runs

pipeVars == <<stages, psubs, pnext, runs>>

\* the values given to run (the stages compute modulo 3)
Inputs == {0, 1}

\* a stage adds one, doubles, or fails (by throwing or by rejecting)
StageKinds == {"inc", "dbl", "fail"}

Apply(kind, x) == IF kind = "inc" THEN (x + 1) % 3 ELSE (2 * x) % 3

\* let curr = input; no stage awaited yet
NewRun(input) ==
  [input |-> input, i |-> 0, pend |-> "none", val |-> input, calls |-> <<>>,
   events |-> <<>>, trace |-> <<>>, res |-> "pending", out |-> input,
   cause |-> "none"]

Event(i, st) == [stage |-> i, status |-> st]

\* the run after evt.emit(ev): trace holds the emissions and the invocations
\* of stages in the order in which the run made them
Emitted(r, ev) == [r EXCEPT !.events = Append(@, ev), !.trace = Append(@, ev)]

\* the run after the call stages[i](curr)
Called(r, i, curr) ==
  [r EXCEPT !.calls = Append(@, [stage |-> i, arg |-> curr]),
            !.trace = Append(@, Event(i, "call"))]

\* what the subscribers q of a bus may do in one emission
Reactions(q) == [Range(q) -> Behaviours]

\* catch (e) { evt.emit({ stage: i, status: 'fail', ... }); throw e; }
\* an exception of a subscriber in this emission replaces e.  The outcomes
\* are one per reaction of the subscribers.
Catch_ReturnsPartial(r, q, i, cause) ==
  { LET e == Emit(q, Event(i, "fail"), bf)
    IN  [run |-> [Emitted(r, Event(i, "fail")) EXCEPT
                     !.res = "fulfilled", !.out = r.val, !.pend = "none"],
         ls |-> e.ls] : bf \in Reactions(q) }

Catch_Silent(r, q, i, cause) ==
  {[run |-> [r EXCEPT !.res = "rejected", !.cause = cause, !.pend = "none"], ls |-> q]}

Catch(r, q, i, cause) ==
  { LET e == Emit(q, Event(i, "fail"), bf)
    IN  [run |-> [Emitted(r, Event(i, "fail")) EXCEPT
                     !.res = "rejected",
                     !.cause = IF e.threw THEN "sub" ELSE cause, !.pend = "none"],
         ls |-> e.ls] : bf \in Reactions(q) }

\* the loop from its header at index i up to the await of stage i, or to the
\* return after the last stage (source indices: stage i is stages[i + 1] here).
\* A failing stage either throws, which the catch takes at once, or returns a
\* promise that rejects.
Enter(r, q, i, curr) ==
  IF i >= Len(stages)
  THEN {[run |-> [r EXCEPT !.res = "fulfilled", !.out = curr, !.pend = "none"], ls |-> q]}
  ELSE UNION
       { LET e == Emit(q, Event(i, "run"), br)
             r1 == [Emitted(r, Event(i, "run")) EXCEPT !.i = i]
             r2 == Called(r1, i, curr)
         IN  IF e.threw THEN Catch(r1, e.ls, i, "sub")
             ELSE IF stages[i + 1] = "fail"
             THEN Catch(r2, e.ls, i, "stage")
                     \cup {[run |-> [r2 EXCEPT !.pend = "reject"], ls |-> e.ls]}
             ELSE {[run |-> [r2 EXCEPT !.pend = "value",
                                       !.val = Apply(stages[i + 1], curr)],
                    ls |-> e.ls]} : br \in Reactions(q) }

\* curr = await stages[i](curr): the value the next stage is given
NextInput_KeepsInput(r) == r.input

NextInput_Shared(r) == runs[Len(runs)].val

NextInput(r) == r.val

\* the run from the settlement of the awaited stage to its next await
Continue(r, q) ==
  IF r.pend = "reject" THEN Catch(r, q, r.i, "stage")
  ELSE UNION
       { LET e == Emit(q, Event(r.i, "ok"), bo)
             r1 == Emitted(r, Event(r.i, "ok"))
         IN  IF e.threw THEN Catch(r1, e.ls, r.i, "sub")
             ELSE Enter(r1, e.ls, r.i + 1, NextInput(r)) : bo \in Reactions(q) }

Watchers == 1..(pnext - 1)

PipeIdle ==
  /\ stages = <<>>
  /\ psubs = <<>>
  /\ pnext = 1
  /\ runs = <<>>

\* Mol_Pipeline(...stages)
InitPipe ==
  /\ \E n \in 0..MaxStages : stages \in [1..n -> StageKinds]
  /\ psubs = <<>>
  /\ pnext = 1
  /\ runs = <<>>

\* p.on(f)
PipeOn ==
  /\ pnext <= MaxWatchers
  /\ psubs' = Append(psubs, pnext)
  /\ pnext' = pnext + 1
  /\ UNCHANGED <<stages, runs>>

\* the function p.on(f) returned
PipeOff ==
  /\ \E h \in Watchers : psubs' = Unsubscribe(psubs, h)
  /\ UNCHANGED <<stages, pnext, runs>>

\* p.run(input), up to its first await
PipeRun ==
  /\ Len(runs) < MaxRuns
  /\ \E input \in Inputs : \E s \in Enter(NewRun(input), psubs, 0, input) :
        /\ runs' = Append(runs, s.run)
        /\ psubs' = s.ls
  /\ UNCHANGED <<stages, pnext>>

\* the promise a run awaits settles and the run goes on to its next await
PipeResume ==
  /\ \E k \in 1..Len(runs) :
        /\ runs[k].res = "pending"
        /\ \E s \in Continue(runs[k], psubs) :
              /\ runs' = [runs EXCEPT ![k] = s.run]
              /\ psubs' = s.ls
  /\ UNCHANGED <<stages, pnext>>

\* --------------------------------------------------------------- Atom_State
\* cinit : the value the cell was constructed with (initial)
\* cval  : the value the cell holds (v)
\* cexp  : bookkeeping for the properties: the value last established by the
\*         construction, a write or a reset
\* cop   : the last operation, its argument, the value held before it and what
\*         it returned
VARIABLES cinit, cval, cexp, cop

cellVars == <<cinit, cval, cexp, cop>>

CellValues == 0..MaxCell

NoOp == [op |-> "none", arg |-> 0, prev |-> 0, ret |-> 0]

\* read: () => v
ReadCell(v) == v

\* write: (x) => (v = x, v)
WriteCell(v, x) == x

\* reset: () => (v = initial, v)
ResetCell_Keeps(v, initial) == v

ResetCell(v, initial) == initial

CellIdle ==
  /\ cinit = 0
  /\ cval = 0
  /\ cexp = 0
  /\ cop = NoOp

\* Atom_State(initial): let v = initial
InitCell ==
  /\ cinit \in CellValues
  /\ cval = cinit
  /\ cexp = cinit
  /\ cop = NoOp

CellRead ==
  /\ cop' = [op |-> "read", arg |-> 0, prev |-> cval, ret |-> ReadCell(cval)]
  /\ UNCHANGED <<cinit, cval, cexp>>

CellWrite ==
  \E x \in CellValues :
    /\ cval' = WriteCell(cval, x)
    /\ cop' = [op |-> "write", arg |-> x, prev |-> cval, ret |-> cval']
    /\ cexp' = x
    /\ UNCHANGED cinit

CellReset ==
  /\ cval' = ResetCell(cval, cinit)
  /\ cop' = [op |-> "reset", arg |-> 0, prev |-> cval, ret |-> cval']
  /\ cexp' = cinit
  /\ UNCHANGED cinit

\* ----------------------------------------------------------- Module_Logger
\* lbuf is the logs array, lcount the number of log calls made (the entry of
\* the n-th call is identified by n), lsubs the subscribers of the logger's
\* event bus, lcall the last log call.
VARIABLES lbuf, lcount, lsubs, lnext, lcall

logVars == <<lbuf, lcount, lsubs, lnext, lcall>>

NoLog ==
  [op |-> "none", entry |-> 0, before |-> <<>>, beh |-> <<>>,
   delivered |-> <<>>, threw |-> FALSE]

\* const logs = []; const evt = Atom_Event()
LogIdle ==
  /\ lbuf = <<>>
  /\ lcount = 0
  /\ lsubs = <<>>
  /\ lnext = 1
  /\ lcall = NoLog

\* info / warn / error / debug (...m) => log(level, ...m):
\*   logs.push(entry); if (logs.length > 1000) logs.shift(); evt.emit(entry);
\* the four methods differ in entry.level only
LoggerLog ==
  /\ lcount < MaxLogged
  /\ \E beh \in [Range(lsubs) -> Behaviours] :
       LET entry == lcount + 1
           e == Emit(lsubs, entry, beh)
       IN  /\ lbuf' = LogPush(lbuf, entry)
           /\ lcount' = entry
           /\ lsubs' = e.ls
           /\ lcall' = [op |-> "log", entry |-> entry, before |-> lsubs,
                        beh |-> beh, delivered |-> e.delivered, threw |-> e.threw]
           /\ UNCHANGED lnext

\* onLog: evt.on
LoggerOnLog ==
  /\ lnext <= MaxLogSubs
  /\ lsubs' = Append(lsubs, lnext)
  /\ lnext' = lnext + 1
  /\ lcall' = NoLog
  /\ UNCHANGED <<lbuf, lcount>>

\* a call of the function that onLog returned
LoggerOff ==
  \E h \in 1..(lnext - 1) :
    /\ lsubs' = Unsubscribe(lsubs, h)
    /\ lcall' = NoLog
    /\ UNCHANGED <<lbuf, lcount, lnext>>

\* getLogs: () => [...logs]
GetLogs == lbuf

\* ------------------------------------------------------- specifications
vars == <<status, appState, logs, sweeps, mq, schema, sinit, sval, ls, nextId,
          call, subs, bonce, bnext, em, mstate, hooks, msubs, mnext, hist,
          stages, psubs, pnext, runs, cinit, cval, cexp, cop,
          lbuf, lcount, lsubs, lnext, lcall>>

Init == InitCore /\ StoreIdle /\ BusIdle /\ ModIdle /\ PipeIdle /\ CellIdle /\ LogIdle

Next ==
  \/ CallInit /\ UNCHANGED <<storeVars, busVars, modVars, pipeVars, cellVars, logVars>>
  \/ CallStart /\ UNCHANGED <<storeVars, busVars, modVars, pipeVars, cellVars, logVars>>
  \/ CallStop /\ UNCHANGED <<storeVars, busVars, modVars, pipeVars, cellVars, logVars>>
  \/ Resume /\ UNCHANGED <<storeVars, busVars, modVars, pipeVars, cellVars, logVars>>

Spec == Init /\ [][Next]_vars

InitS == InitStore /\ InitCore /\ BusIdle /\ ModIdle /\ PipeIdle /\ CellIdle /\ LogIdle

NextS ==
  \/ StoreSet /\ UNCHANGED <<coreVars, busVars, modVars, pipeVars, cellVars, logVars>>
  \/ StoreSetReentrant /\ UNCHANGED <<coreVars, busVars, modVars, pipeVars, cellVars, logVars>>
  \/ StoreOn /\ UNCHANGED <<coreVars, busVars, modVars, pipeVars, cellVars, logVars>>
  \/ StoreOff /\ UNCHANGED <<coreVars, busVars, modVars, pipeVars, cellVars, logVars>>
  \/ StoreReset /\ UNCHANGED <<coreVars, busVars, modVars, pipeVars, cellVars, logVars>>

SpecStore == InitS /\ [][NextS]_vars

InitB == BusIdle /\ InitCore /\ StoreIdle /\ ModIdle /\ PipeIdle /\ CellIdle /\ LogIdle

NextB ==
  \/ BusOn /\ UNCHANGED <<coreVars, storeVars, modVars, pipeVars, cellVars, logVars>>
  \/ BusOnce /\ UNCHANGED <<coreVars, storeVars, modVars, pipeVars, cellVars, logVars>>
  \/ BusOff /\ UNCHANGED <<coreVars, storeVars, modVars, pipeVars, cellVars, logVars>>
  \/ BusOffOnce /\ UNCHANGED <<coreVars, storeVars, modVars, pipeVars, cellVars, logVars>>
  \/ BusEmit /\ UNCHANGED <<coreVars, storeVars, modVars, pipeVars, cellVars, logVars>>
  \/ BusClear /\ UNCHANGED <<coreVars, storeVars, modVars, pipeVars, cellVars, logVars>>

SpecBus == InitB /\ [][NextB]_vars

InitM == ModIdle /\ InitCore /\ StoreIdle /\ BusIdle /\ PipeIdle /\ CellIdle /\ LogIdle

NextM ==
  \/ ModOnHook /\ UNCHANGED <<coreVars, storeVars, busVars, pipeVars, cellVars, logVars>>
  \/ ModOn /\ UNCHANGED <<coreVars, storeVars, busVars, pipeVars, cellVars, logVars>>
  \/ ModOff /\ UNCHANGED <<coreVars, storeVars, busVars, pipeVars, cellVars, logVars>>
  \/ ModInit /\ UNCHANGED <<coreVars, storeVars, busVars, pipeVars, cellVars, logVars>>
  \/ ModStart /\ UNCHANGED <<coreVars, storeVars, busVars, pipeVars, cellVars, logVars>>
  \/ ModStop /\ UNCHANGED <<coreVars, storeVars, busVars, pipeVars, cellVars, logVars>>
  \/ ModSettle /\ UNCHANGED <<coreVars, storeVars, busVars, pipeVars, cellVars, logVars>>

SpecModule == InitM /\ [][NextM]_vars

InitP == InitPipe /\ InitCore /\ StoreIdle /\ BusIdle /\ ModIdle /\ CellIdle /\ LogIdle

NextP ==
  \/ PipeOn /\ UNCHANGED <<coreVars, storeVars, busVars, modVars, cellVars, logVars>>
  \/ PipeOff /\ UNCHANGED <<coreVars, storeVars, busVars, modVars, cellVars, logVars>>
  \/ PipeRun /\ UNCHANGED <<coreVars, storeVars, busVars, modVars, cellVars, logVars>>
  \/ PipeResume /\ UNCHANGED <<coreVars, storeVars, busVars, modVars, cellVars, logVars>>

SpecPipe == InitP /\ [][NextP]_vars

InitC == InitCell /\ InitCore /\ StoreIdle /\ BusIdle /\ ModIdle /\ PipeIdle /\ LogIdle

NextC ==
  \/ CellRead /\ UNCHANGED <<coreVars, storeVars, busVars, modVars, pipeVars, logVars>>
  \/ CellWrite /\ UNCHANGED <<coreVars, storeVars, busVars, modVars, pipeVars, logVars>>
  \/ CellReset /\ UNCHANGED <<coreVars, storeVars, busVars, modVars, pipeVars, logVars>>

SpecCell == InitC /\ [][NextC]_vars

InitL == LogIdle /\ InitCore /\ StoreIdle /\ BusIdle /\ ModIdle /\ PipeIdle /\ CellIdle

NextL ==
  \/ LoggerLog /\ UNCHANGED <<coreVars, storeVars, busVars, modVars, pipeVars, cellVars>>
  \/ LoggerOnLog /\ UNCHANGED <<coreVars, storeVars, busVars, modVars, pipeVars, cellVars>>
  \/ LoggerOff /\ UNCHANGED <<coreVars, storeVars, busVars, modVars, pipeVars, cellVars>>

SpecLogger == InitL /\ [][NextL]_vars

\* ------------------------------------------------------ claims on the Core
SweepIds == DOMAIN sweeps

Startup(sw) == sw.kind \in {"init", "start"}

LastInvoked(sw) == sw.trace[Len(sw.trace)]

\* position of a module in the registration order
Index(n) == CHOOSE i \in 1..NumModules : Modules[i] = n

\* a step in which sweep s calls one more phase method
Invokes(s) == Len(sweeps'[s].trace) > Len(sweeps[s].trace)

\* C1: Core.init() and Core.start() call the modules' phase methods strictly
\* in registration order (logger, config, state, window, ipc), and the phase
\* method of module i+1 is called only in the continuation that has seen the
\* promise of module i's phase method fulfilled.
C1_StartupInRegistrationOrder ==
  /\ [](\A s \in SweepIds : Startup(sweeps[s]) =>
          /\ Len(sweeps[s].trace) <= NumModules
          /\ \A i \in 1..Len(sweeps[s].trace) : sweeps[s].trace[i] = Modules[i])
  /\ [][\A s \in SweepIds : (Startup(sweeps[s]) /\ Invokes(s)) =>
          /\ sweeps[s].pend = NoErr
          /\ s = Head(mq)
          /\ Len(sweeps'[s].trace) = Len(sweeps[s].trace) + 1]_vars

C1_Witness ==
  \E s \in SweepIds : /\ Startup(sweeps[s])
                       /\ sweeps[s].pc = "resolved"
                       /\ sweeps[s].trace = <<"logger", "config", "state", "window", "ipc">>

\* C2: once the promise of a module's init (start) is rejected in Core.init()
\* (Core.start()), that sweep calls no further phase method and never
\* resolves, and the step that runs its continuation rejects the Core call
\* with the module's exception.
C2_StartupFailFast ==
  [][\A s \in SweepIds : (Startup(sweeps[s]) /\ sweeps[s].pend # NoErr) =>
        /\ sweeps'[s].trace = sweeps[s].trace
        /\ sweeps'[s].pc # "resolved"
        /\ sweeps'[s] # sweeps[s] =>
              /\ sweeps'[s].pc = "rejected"
              /\ sweeps'[s].err = sweeps[s].pend]_vars

C2_Witness ==
  \E s \in SweepIds : /\ Startup(sweeps[s])
                       /\ sweeps[s].pc = "rejected"
                       /\ sweeps[s].cause = "phase"
                       /\ Len(sweeps[s].trace) = 2

\* C3: Core.stop() calls the modules' stop methods in the reverse of the
\* registration order (ipc, window, state, config, logger), each one only in
\* the continuation that has awaited the one before; a stop sweep that
\* resolves has called all of them.
C3_StopInReverseOrder ==
  /\ [](\A s \in SweepIds : sweeps[s].kind = "stop" =>
          /\ Len(sweeps[s].trace) <= NumModules
          /\ \A i \in 1..Len(sweeps[s].trace) :
                sweeps[s].trace[i] = Modules[NumModules + 1 - i]
          /\ sweeps[s].pc = "resolved" => Len(sweeps[s].trace) = NumModules)
  /\ [][\A s \in SweepIds : (sweeps[s].kind = "stop" /\ Invokes(s)) =>
          /\ sweeps[s].pend = NoErr
          /\ s = Head(mq)
          /\ Len(sweeps'[s].trace) = Len(sweeps[s].trace) + 1]_vars

C3_Witness ==
  \E s \in SweepIds : /\ sweeps[s].kind = "stop"
                       /\ sweeps[s].pc = "resolved"
                       /\ sweeps[s].trace = <<"ipc", "window", "state", "config", "logger">>

\* a stop sweep that ended because a module's stop failed
StopFailed(sw) == sw.kind = "stop" /\ sw.pc = "rejected" /\ sw.cause = "phase"

\* a startup sweep that ended because a module's init (start) failed
StartupFailed(sw) == Startup(sw) /\ sw.pc = "rejected" /\ sw.cause = "phase"

\* C4: a module whose stop fails does not halt Core.stop(): a stop sweep that
\* has ended after a stop failure has called stop on every module, those
\* before the failing one in registration order included.
C4_StopBestEffort ==
  \A s \in SweepIds : StopFailed(sweeps[s]) => Len(sweeps[s].trace) = NumModules

\* C5: stop failures reach the caller only after the whole sweep, as one
\* aggregate ShutdownError that lists every module whose stop failed.
C5_StopAggregateError ==
  \A s \in SweepIds :
     (sweeps[s].kind = "stop" /\ sweeps[s].failed # {} /\ sweeps[s].pc # "awaiting") =>
        /\ Len(sweeps[s].trace) = NumModules
        /\ sweeps[s].err.type = "ShutdownError"
        /\ sweeps[s].err.ref = sweeps[s].failed

\* C6: when Core.init() or Core.start() halts because module B's phase method
\* threw, the caller receives a StartupAbort that identifies B.
C6_StartupAbortNamesModule ==
  \A s \in SweepIds : StartupFailed(sweeps[s]) =>
     sweeps[s].err = [type |-> "StartupAbort", ref |-> {LastInvoked(sweeps[s])}]

\* the modules registered before module n
Before(n) == {Modules[i] : i \in 1..(Index(n) - 1)}

Recorded == {n \in Names : appState.modules[n] = "running"}

\* a module's record appears only in the continuation that has seen that
\* module's start fulfilled
RecordedAfterStart ==
  [][\A n \in Names : (n \in Recorded' /\ n \notin Recorded) =>
        /\ mq # <<>>
        /\ sweeps[Head(mq)].kind = "start"
        /\ sweeps[Head(mq)].pend = NoErr
        /\ LastInvoked(sweeps[Head(mq)]) = n]_vars

\* by the time a start sweep has called the next module's start, the record of
\* the module before it is in the store
RecordedBeforeNext ==
  \A s \in SweepIds : sweeps[s].kind = "start" =>
     \A i \in 1..(Len(sweeps[s].trace) - 1) : sweeps[s].trace[i] \in Recorded

StartFailed(sw) == sw.kind = "start" /\ sw.pc = "rejected" /\ sw.cause = "phase"

\* C7: during Core.start() the store records a module as running only after
\* that module's start has succeeded and before the next module's start is
\* called; if the sweep fails at module k, the store holds a running record
\* for exactly the modules before k and for none at or after k.
C7_RecordsExactlyBeforeFailure ==
  /\ RecordedAfterStart
  /\ []RecordedBeforeNext
  /\ [](\A s \in SweepIds : StartFailed(sweeps[s]) =>
            Recorded = Before(LastInvoked(sweeps[s])))

\* C8: the overall application status is 'running' only when a Core.start()
\* sweep has seen the start of every module fulfilled, and the step in which a
\* start sweep ends on a failed start leaves the overall status as it was.
C8_AppRunningOnlyAfterFullSweep ==
  /\ [](appState.app = "running" =>
          \E s \in SweepIds : /\ sweeps[s].kind = "start"
                               /\ sweeps[s].pc # "awaiting"
                               /\ sweeps[s].failed = {}
                               /\ sweeps[s].wrote = Names)
  /\ [][\A s \in SweepIds :
          (sweeps[s].kind = "start" /\ sweeps[s].pend # NoErr) =>
             (sweeps'[s] # sweeps[s] => appState'.app = appState.app)]_vars

C8_Witness ==
  /\ appState.app = "running"
  /\ \E s \in SweepIds : StartFailed(sweeps[s]) /\ sweeps[s].wrote # Names

\* the order in which a module's status may advance
Advances == {<<"idle", "init">>, <<"init", "run">>, <<"run", "stop">>}

\* C18: under any sequence of init/start/stop calls, a module's status only
\* advances along idle -> init -> run -> stop: every change of a module's
\* status takes it to the next status of that order, never backward and never
\* past a status.
C18_StatusOnlyAdvances ==
  [][\A n \in Names : status'[n] # status[n] => <<status[n], status'[n]>> \in Advances]_vars

\* C24: the steps (module phase invocations) of different sweeps of one Core
\* never interleave, also for calls issued without awaiting the previous one:
\* a sweep that goes on to its next module is the sweep started last, so that
\* no step of another sweep stands between two of its own.
C24_SweepsNeverInterleave ==
  [][\A t \in SweepIds : Invokes(t) => t = Len(sweeps)]_vars

\* sweep s calls a module's phase method in this step and the call fails
FailsNow(s) ==
  /\ s \notin SweepIds \/ Invokes(s)
  /\ sweeps'[s].pend # NoErr

\* sweep s takes the failure of its last call in this step and ends
AbortsNow(s) ==
  /\ s \in SweepIds
  /\ sweeps[s].pc = "awaiting"
  /\ StartupFailed(sweeps'[s])

\* C30: when Core.init() or Core.start() aborts at module k the Core does not
\* compensate: the abort changes no module's status and invokes no stop, so
\* the modules before k keep the status they reached, and module k, whose
\* phase failed, has the status it had before its phase was called, as have
\* the modules after k, which are not called.
C30_AbortLeavesStatuses ==
  [][\A s \in DOMAIN sweeps' :
        Startup(sweeps'[s]) =>
           /\ FailsNow(s) =>
                 status'[LastInvoked(sweeps'[s])] = status[LastInvoked(sweeps'[s])]
           /\ AbortsNow(s) =>
                 /\ status' = status
                 /\ Len(sweeps') = Len(sweeps)
                 /\ \A t \in SweepIds : sweeps'[t].trace = sweeps[t].trace]_vars

\* C35: the shared store mirrors the modules' own statuses: a module the store
\* records as running has status run, and when the application status is
\* running every module has status run; also after Core.stop().
C35_StoreMirrorsStatus ==
  /\ \A n \in Names : appState.modules[n] = "running" => status[n] = "run"
  /\ appState.app = "running" => \A n \in Names : status[n] = "run"

\* ----------------------------------------------------- claims on the Store
\* the payload breaks rule i of the schema
Breaks(v, i) == ~Holds(schema[i].r, v[schema[i].k])

\* the payload is an object that satisfies every rule (any payload when the
\* Store has no schema)
Satisfies(v) ==
  \/ schema = <<>>
  \/ v # NULL /\ \A i \in 1..Len(schema) : ~Breaks(v, i)

\* the payload is an object that violates at least one rule
Violates(v) == v # NULL /\ \E i \in 1..Len(schema) : Breaks(v, i)

\* the first violating field in rule-declaration order
FirstViolating(v) ==
  schema[CHOOSE i \in 1..Len(schema) :
           Breaks(v, i) /\ \A j \in 1..(i - 1) : ~Breaks(v, j)].k

\* one emission carrying v to each handler of q, in the order of q
OneEach(q, v) == [i \in 1..Len(q) |-> [h |-> q[i], d |-> v]]

\* C9: for every payload that satisfies the schema (every payload without a
\* schema), set(v) returns v, get() then returns v, and every subscriber
\* registered at the time of the call receives exactly one emission carrying
\* v, in subscription order.  Stated for the calls that return: a call in which
\* a subscriber throws is left out of the statement.
C9_SetDeliversToAll ==
  (call.op = "set" /\ Satisfies(call.v) /\ call.out = "return") =>
     /\ call.ret = call.v
     /\ sval = call.v
     /\ call.delivered = OneEach(call.before, call.v)

\* C10: for every payload that violates at least one rule, set(v) throws a
\* validation error naming the first violating field in rule-declaration
\* order, get() returns the same value as before and no subscriber is invoked.
C10_InvalidNamesFirstDeclared ==
  (call.op = "set" /\ Violates(call.v)) =>
     /\ call.out = "throw"
     /\ call.err = [type |-> "Invalid", field |-> FirstViolating(call.v)]
     /\ sval = call.prev
     /\ ls = call.before
     /\ call.delivered = <<>>

\* C11: every Store.set call ends either with the value replaced and every
\* subscriber of the moment notified exactly once, or with the value unchanged
\* and no subscriber notified; also when a subscriber throws.
C11_SetAllOrNothing ==
  call.op = "set" =>
     \/ sval = call.v /\ call.delivered = OneEach(call.before, call.v)
     \/ sval = call.prev /\ call.delivered = <<>>

\* C26: reset() restores the store's value to its construction-time
\* initial value (and returns it), invokes no subscriber and leaves the
\* subscriber list as it was.
C26_ResetIsSilent ==
  call.op = "reset" =>
     /\ sval = sinit
     /\ call.ret = sinit
     /\ call.delivered = <<>>
     /\ ls = call.before

C26_Witness ==
  /\ call.op = "reset"
  /\ call.prev # sinit
  /\ Len(ls) >= 2
  /\ sval = sinit

\* C28: the validator built from the rule map returns ok exactly for the data
\* on which every rule's predicate holds, and otherwise names the first
\* failing field in the declaration order of the rule map.
C28_ValidatorNamesFirstDeclared ==
  \A v \in Objects :
     LET r == Validate(schema, v)
     IN  /\ r.ok <=> \A i \in 1..Len(schema) : ~Breaks(v, i)
         /\ ~r.ok => r.field = FirstViolating(v)

\* the payload of the last invocation of handler h in the last call
LastSeen(h) ==
  LET at == {j \in 1..Len(call.delivered) : call.delivered[j].h = h}
  IN  call.delivered[CHOOSE j \in at : \A i \in at : i <= j].d

\* C36: when a subscriber calls set reentrantly while it handles the emission
\* of an outer set, then after the outer set has returned the last payload
\* delivered to every subscriber is the value get() returns.
C36_ReentrantSetConverges ==
  call.op = "reenter" => \A h \in Range(ls) : LastSeen(h) = sval

\* ------------------------------------------------------- claims on the bus
\* the handlers an emission invoked, in the order of the invocations
Invoked == [j \in 1..Len(em.delivered) |-> em.delivered[j].h]

InvokedSet == {em.delivered[j].h : j \in 1..Len(em.delivered)}

\* what handler h did in the emission just made
Did(h, b) == h \in InvokedSet /\ em.beh[h] = b

\* C12: snapshot semantics: when a handler subscribed with on unsubscribes
\* during an emit, every handler that was subscribed when the emit began is
\* still invoked in that pass (with three subscribers of which the second
\* unsubscribes itself, the third is invoked).  Stated for buses whose
\* handlers return or unsubscribe themselves.
C12_SnapshotEmission ==
  (/\ em.op = "emit"
   /\ \A h \in Range(em.before) : em.beh[h] \in {"return", "off"}
   /\ \E h \in Range(em.before) : Did(h, "off")) =>
     \A h \in Range(em.before) : h \in InvokedSet

\* C13: a handler registered with once is invoked by the next emit and is
\* then removed: it is no longer subscribed after that emit, and its removal
\* neither removes nor skips another subscriber.  Stated for the emits in which
\* no handler throws or unsubscribes by the function on returned.
C13_OnceRemovesOnlyItself ==
  (em.op = "emit" /\ \A h \in Range(em.before) : em.beh[h] \in {"return", "once"}) =>
     \A h \in Range(em.before) :
        /\ h \in bonce => (h \in InvokedSet /\ h \notin Range(subs))
        /\ (h \notin bonce /\ em.beh[h] = "return") =>
              (h \in InvokedSet /\ h \in Range(subs))

\* C14: emit(payload) invokes every handler subscribed at the time exactly
\* once with that payload, in subscription order, before it returns.  Stated
\* for the emits that return.
C14_EmitInvokesAllInOrder ==
  (em.op = "emit" /\ ~em.threw) => em.delivered = OneEach(em.before, em.d)

\* C15: a handler that throws during emit ends the pass: emit throws, the
\* throwing handler is the last one invoked, so no handler subscribed after it
\* is invoked, and the throw leaves the subscriber array as it was (the
\* thrower stays subscribed; the array is the one before the emit when the
\* handlers invoked earlier only returned).
C15_ThrowEndsPass ==
  (em.op = "emit" /\ \E h \in Range(em.before) : Did(h, "throw")) =>
     LET n == Len(em.delivered)
         t == em.delivered[n].h
     IN  /\ em.threw
         /\ em.beh[t] = "throw"
         /\ \A j \in 1..(n - 1) : em.beh[Invoked[j]] # "throw"
         /\ \A h \in Range(em.before) :
               IndexOf(em.before, h) > IndexOf(em.before, t) => h \notin InvokedSet
         /\ t \in Range(subs)
         /\ (\A j \in 1..(n - 1) : em.beh[Invoked[j]] = "return") => subs = em.before

C15_Witness ==
  /\ em.op = "emit"
  /\ em.before = <<1, 2, 3>>
  /\ em.beh[2] = "throw"
  /\ Invoked = <<1, 2>>
  /\ subs = <<1, 2, 3>>

\* the array q without handler h
Without(q, h) == IF h \in Range(q) THEN RemoveAt(q, IndexOf(q, h)) ELSE q

\* C31: the unsubscribe function that on(f) returned removes only f's
\* subscription: when f is no longer subscribed (a second call, or a call
\* after clear()) it removes nothing, so no other subscriber is dropped.
C31_OffRemovesOnlyItself ==
  em.op = "off" => subs = Without(em.before, em.h)

\* C32: calling the unsubscribe function that once(f) returned before any emit
\* cancels exactly that subscription: f is no longer subscribed, so no later
\* emit invokes it, and every other subscriber stays subscribed, those
\* subscribed after the once call included.
C32_OnceOffCancelsItself ==
  (em.op = "offonce" /\ ~em.emitted) =>
     /\ em.h \in Range(em.before)
     /\ subs = Without(em.before, em.h)

\* C37: a handler subscribed from inside a handler while an emit is in
\* progress is not invoked during that pass: every handler the pass invokes
\* was subscribed when the pass began.
C37_NewHandlerWaitsForNextEmit ==
  em.op = "emit" => InvokedSet \subseteq Range(em.before)

\* ---------------------------------------------------- claims on the Module
Calls == 1..Len(hist)

\* the emissions of call i are exactly one, of the phase name, made when the
\* cell already held the status of the phase
OnePhaseEvent(i) ==
  /\ Len(hist[i].events) = 1
  /\ hist[i].events[1].e = hist[i].op
  /\ hist[i].events[1].seen = hist[i].state.status

InitThenStart ==
  /\ Len(hist) >= 2
  /\ hist[1].op = "init" /\ hist[1].thrower = 0
  /\ hist[2].op = "start" /\ hist[2].thrower = 0

\* C16: on a freshly constructed module, init() followed by start() takes the
\* status through idle, init, run, and each of the two calls emits exactly one
\* phase event, after the new status has been written.  Stated for calls in
\* which no hook throws.
C16_InitThenStart ==
  InitThenStart =>
     /\ <<hist[1].prev.status, hist[1].state.status, hist[2].state.status>>
           = <<"idle", "init", "run">>
     /\ hist[2].prev = hist[1].state
     /\ OnePhaseEvent(1)
     /\ OnePhaseEvent(2)

C16_Witness ==
  /\ InitThenStart
  /\ Len(hist) = 2
  /\ hist[1].n > 0
  /\ msubs # <<>>
  /\ mstate.status = "run"

\* C17: when a hook of the phase throws, the call's promise rejects, no hook
\* registered after the throwing one is run, the status cell keeps the value
\* it had before the call, and no phase event is emitted.
C17_HookThrowLeavesStatus ==
  \A i \in Calls :
     hist[i].thrower # 0 =>
        /\ hist[i].res = "rejected"
        /\ hist[i].ran = hist[i].thrower
        /\ hist[i].state = hist[i].prev
        /\ hist[i].events = <<>>
        /\ i = Len(hist) => mstate = hist[i].prev

C17_Witness ==
  \E i \in Calls :
     /\ hist[i].n = 2
     /\ hist[i].thrower = 1
     /\ hist[i].op = "start"
     /\ hist[i].prev.status = "init"
     /\ i = Len(hist)
     /\ mstate.status = "init"

\* C19: the status cell always holds a record whose status is one of idle,
\* init, run, stop and whose error field is null, also after a phase whose
\* hook threw.
C19_StatusCellWellFormed ==
  /\ mstate.status \in {"idle", "init", "run", "stop"}
  /\ mstate.err = ErrNull

C19_Witness ==
  /\ \E i \in Calls : hist[i].thrower # 0 /\ hist[i].op = "stop"
  /\ mstate.status = "run"
  /\ mstate.err = ErrNull

\* C25: a phase method writes the status, emits the event and settles only
\* after every hook of the phase has completed, also a hook that returns a
\* promise for asynchronous work, and a rejection of that work fails the
\* phase: a phase call that fulfilled has no hook work open and none rejected.
C25_PhaseAwaitsHooks ==
  \A i \in Calls :
     hist[i].res = "fulfilled" => (hist[i].open = 0 /\ ~hist[i].lost)

\* C29: run(phase) invokes exactly the hooks registered for that phase when it
\* is called, each once and in registration order (hooks 1..ran of the phase),
\* and no hook of another phase; a hook registered later does not add to the
\* hooks a past run invoked.  Stated for runs in which no hook throws.
C29_RunInvokesRegistered ==
  [][/\ Len(hist') = Len(hist) + 1 =>
           LET c == hist'[Len(hist')]
           IN  c.thrower = 0 => (c.n = hooks[c.op] /\ c.ran = hooks[c.op])
      /\ \A i \in Calls : hist'[i].ran = hist[i].ran /\ hist'[i].n = hist[i].n]_vars

\* a hook was registered for init after init ran with one hook
C29_Witness ==
  /\ Len(hist) >= 1
  /\ hist[1].op = "init" /\ hist[1].thrower = 0 /\ hist[1].ran = 1
  /\ hooks["init"] = 2

\* C33: whenever a call of init / start / stop rejects, the module's status is
\* the one it had before the call, whether a hook threw or a subscriber of
\* the phase-event bus threw during the emission.
C33_RejectedCallKeepsStatus ==
  \A i \in Calls :
     hist[i].res = "rejected" => hist[i].state.status = hist[i].prev.status

\* -------------------------------------------------- claims on the Pipeline
\* sn(...s2(s1(x))) for the stage kinds seq = <<s1, ..., sn>>
RECURSIVE Compose(_, _)
Compose(seq, x) == IF seq = <<>> THEN x ELSE Compose(Tail(seq), Apply(Head(seq), x))

AllSucceed == \A j \in 1..Len(stages) : stages[j] # "fail"

\* the invocations a run makes of its first n stages when each is given the
\* awaited output of the one before
InOrder(input, n) ==
  [j \in 1..n |-> [stage |-> j - 1, arg |-> Compose(SubSeq(stages, 1, j - 1), input)]]

FailedCall(r, j) == stages[r.calls[j].stage + 1] = "fail"

Expected(p) ==
  LET j == (p - 1) \div 3
      m == (p - 1) % 3
  IN  CASE m = 0 -> Event(j, "run")
        [] m = 1 -> Event(j, "call")
        [] OTHER -> Event(j, IF stages[j + 1] = "fail" THEN "fail" ELSE "ok")

FirstFail ==
  (CHOOSE j \in 1..Len(stages) :
      stages[j] = "fail" /\ \A i \in 1..(j - 1) : stages[i] # "fail") - 1

\* C23: runs on one pipeline interleaved at their awaits are independent: each
\* settles with the result it gives alone, the composition of the stages on
\* its own input or the failure of the first failing stage.  Stated for runs
\* in which no subscriber of the pipeline's bus throws.
C23_RunsIndependent ==
  \A k \in 1..Len(runs) :
     (runs[k].res # "pending" /\ runs[k].cause # "sub") =>
        IF AllSucceed
        THEN runs[k].res = "fulfilled" /\ runs[k].out = Compose(stages, runs[k].input)
        ELSE runs[k].res = "rejected" /\ runs[k].cause = "stage" /\ runs[k].i = FirstFail

\* the second run has settled while the first still awaits its first stage
C23_Witness ==
  /\ stages = <<"inc", "dbl">>
  /\ Len(runs) = 2
  /\ runs[1].res = "pending" /\ runs[1].i = 0 /\ runs[1].input = 0
  /\ runs[2].res = "fulfilled" /\ runs[2].input = 1 /\ runs[2].out = 1

\* the stages for which run r emitted the event st
StagesWith(r, st) ==
  {r.events[p].stage : p \in {q \in 1..Len(r.events) : r.events[q].status = st}}

\* the stages whose function run r called and which failed
FailedStages(r) ==
  {r.calls[j].stage : j \in {q \in 1..Len(r.calls) : FailedCall(r, q)}}

\* C34: in one run each stage gets at most one terminal event: no stage gets
\* both 'ok' and 'fail', and 'fail' is emitted only for a stage whose function
\* itself threw or rejected, also when a subscriber of the pipeline's bus
\* throws while handling a 'run' or an 'ok' event.
C34_OneTerminalEvent ==
  \A k \in 1..Len(runs) :
     /\ StagesWith(runs[k], "ok") \cap StagesWith(runs[k], "fail") = {}
     /\ StagesWith(runs[k], "fail") \subseteq FailedStages(runs[k])

\* ------------------------------------------------ claims on the State cell
\* C27: for a cell constructed with i, read() returns i until the first
\* write; write(x) returns x and the reads that follow return x until the next
\* write or reset; reset() returns i and the reads that follow return i,
\* after any sequence of writes.
C27_CellReadsLastEstablished ==
  /\ cop.op = "read" => cop.ret = cexp
  /\ cop.op = "write" => (cop.ret = cop.arg /\ cexp = cop.arg)
  /\ cop.op = "reset" => (cop.ret = cinit /\ cexp = cinit)
  /\ ReadCell(cval) = cexp

C27_Witness ==
  /\ cop.op = "reset"
  /\ cop.prev # cinit
  /\ cop.ret = cinit
  /\ cval = cinit

\* --------------------------------------------------- claims on the Logger
\* the n most recent of the entries 1..lcount, oldest first
MostRecent(n) == [i \in 1..n |-> lcount - n + i]

Kept == IF lcount > LogCap THEN LogCap ELSE lcount

\* C38: the buffer never holds more than 1000 entries: getLogs() returns the
\* most recent entries, at most 1000, in the order they were logged (the oldest
\* is evicted first), and each log call notifies every onLog subscriber exactly
\* once with the new entry.
C38_LoggerBufferAndNotice ==
  /\ Len(GetLogs) <= LogCap
  /\ GetLogs = MostRecent(Kept)
  /\ (lcall.op = "log" /\ ~lcall.threw) =>
        lcall.delivered = OneEach(lcall.before, lcall.entry)
====
